---- MODULE Spec2Model ----
(***************************************************************************)
(* Model of the JSON string scanner of yusufsyaifudin/jsonutil:            *)
(* TruncateJsonString and TruncateJsonValueString (truncate.go).  A byte   *)
(* is a one-character string, a byte slice is a sequence of bytes.  Go     *)
(* indexes from 0, TLA+ sequences from 1: At(s, i) is Go's s[i] and        *)
(* Slice(s, lo, hi) is Go's s[lo:hi].                                      *)
(*                                                                         *)
(* The driver is the loop body of TestTruncateString: it calls             *)
(* TruncateJsonString on an input and then TruncateJsonValueString on the  *)
(* same input with the same maxChars.  Each iteration of a scanner's for   *)
(* loop is one action.                                                     *)
(***************************************************************************)
EXTENDS Integers, Sequences, FiniteSets, TLC

\* ------------------------------------------------------------------ bounds
\* longest input drawn from the full alphabet
MaxLen == 5
\* largest small truncation budget; budgets range over -NegChars..MaxChars
MaxChars == 3
\* long literals have DefaultPadding-1 .. DefaultPadding+LongSlack bytes
LongSlack == 1
\* number of negative budgets tried (a budget <= 0 means "no truncation")
NegChars == 1

\* --------------------------------------------------------- program constants
stringToken == "\""
escapedStringToken == "\\"
DefaultPadding == 20

\* -------------------------------------------------------------- Go helpers
At(s, i) == s[i + 1]

Slice(s, lo, hi) == SubSeq(s, lo + 1, hi)

SliceOK(s, lo, hi) == 0 <= lo /\ lo <= hi /\ hi <= Len(s)

\* Go's integer division truncates toward zero
GoDiv(a, b) == IF a >= 0 THEN a \div b ELSE 0 - ((0 - a) \div b)

Digits == <<"0", "1", "2", "3", "4", "5", "6", "7", "8", "9">>

RECURSIVE Itoa(_)
\* fmt's %d verb
Itoa(n) ==
    IF n < 0 THEN <<"-">> \o Itoa(0 - n)
    ELSE IF n < 10 THEN <<Digits[n + 1]>>
    ELSE Itoa(n \div 10) \o <<Digits[(n % 10) + 1]>>

\* fmt.Sprintf("%s **escaped %d chars at [%d:%d]** %s", a, n, s, e, b)
Sprintf(a, n, s, e, b) ==
    a \o <<" ", "*", "*", "e", "s", "c", "a", "p", "e", "d", " ">> \o Itoa(n)
      \o <<" ", "c", "h", "a", "r", "s", " ", "a", "t", " ", "[">> \o Itoa(s)
      \o <<":">> \o Itoa(e) \o <<"]", "*", "*", " ">> \o b

\* ------------------------------------------------------------------ inputs
Alphabet == {stringToken, escapedStringToken, ":", "a", " "}

ShortInputs == UNION {[1..n -> Alphabet] : n \in 0..MaxLen}

ShortBudgets == (0 - NegChars)..MaxChars

LongBody(n) == [k \in 1..n |-> IF k % 2 = 1 THEN "a" ELSE "b"]

\* {"<body>":"<body>"}
LongInput(n) ==
    <<"{", stringToken>> \o LongBody(n) \o <<stringToken, ":", stringToken>>
        \o LongBody(n) \o <<stringToken, "}">>

LongInputs == {LongInput(n) : n \in (DefaultPadding - 1)..(DefaultPadding + LongSlack)}

LongBudgets == (DefaultPadding - 1)..(DefaultPadding + LongSlack)

Ops == {"all", "val"}

VARIABLES
    data,        \* the input buffer handed to both calls
    maxCharsArg, \* the maxChars argument handed to both calls
    pc,          \* driver position: callAll, scanAll, callVal, scanVal, done
    padding,     \* local: padding
    maxChars,    \* local: maxChars after the "<= 0" adjustment
    buf,         \* local: buf (bytes.Buffer contents)
    str,         \* local: str
    begin,       \* local: begin
    idxStart,    \* local: idxStart
    idxEnd,      \* local: idxEnd
    i,           \* local: loop index
    ret,         \* per operation: what the call returned
    chunks,      \* per operation: history of the writes to buf
    conc,        \* two scanner calls running concurrently, and their buffers
    env,         \* envmap: the call in progress and what it returned
    value,       \* the jsonutil.Value under test and what was read from it
    tree         \* Transformer: the caller's tree and the returned tree

scanVars == <<data, maxCharsArg, pc, padding, maxChars, buf, str, begin,
              idxStart, idxEnd, i, ret, chunks>>

vars == <<data, maxCharsArg, pc, padding, maxChars, buf, str, begin,
          idxStart, idxEnd, i, ret, chunks, conc, env, value, tree>>

\* the state of the components a scanner step does not touch
others == <<conc, env, value, tree>>

\* a component that is not exercised
Idle == [pc |-> "idle"]

locals == <<padding, maxChars, buf, str, begin, idxStart, idxEnd, i>>

NoRet == [done |-> FALSE, out |-> <<>>, isNil |-> TRUE, err |-> FALSE, panic |-> FALSE]

\* ------------------------------------------------ expressions of the code
\* faulty variant: the padding is not halved for small budgets
Padding_Fixed(m) == DefaultPadding

\* padding := 20; if maxChars < padding { padding = maxChars / 2 }
Padding(m) == IF m < DefaultPadding THEN GoDiv(m, 2) ELSE DefaultPadding

\* faulty variant: only a zero budget means "no limit"
Limit_ZeroOnly(m, d) == IF m = 0 THEN Len(d) ELSE m

\* if maxChars <= 0 { maxChars = len(data) }
Limit(m, d) == IF m <= 0 THEN Len(d) ELSE m

\* prevIdx := i; if i != 0 { prevIdx = i - 1 }
PrevIdx(k) == IF k # 0 THEN k - 1 ELSE k

\* datum == stringToken && idxStart == 0
IsOpen(d, k, start) == At(d, k) = stringToken /\ start = 0

\* faulty variant: the lookback for the escape character is forgotten
IsClose_NoEscape(d, k) == At(d, k) = stringToken

\* faulty variant: the end-of-input test runs before the closing-quote test
IsClose_NotLast(d, k) ==
    /\ At(d, k) = stringToken
    /\ At(d, PrevIdx(k)) # escapedStringToken
    /\ k # Len(d) - 1

\* datum == stringToken && data[prevIdx] != escapedStringToken
IsClose(d, k) == At(d, k) = stringToken /\ At(d, PrevIdx(k)) # escapedStringToken

\* faulty variant: only literals longer than the budget are cut
MustTruncate_Strict(s, m) == Len(s) > m

\* faulty variant: the comparison is off by one
MustTruncate_OffByOne(s, m) == Len(s) + 1 >= m

\* len(str) >= maxChars
MustTruncate(s, m) == Len(s) >= m

\* the slices taken by the Sprintf arguments are in range
RenderOK(s, pad) == SliceOK(s, 0, pad) /\ SliceOK(s, Len(s) - pad, Len(s))

\* faulty variant: the marker reports the bytes dropped instead of the excess
Render_Dropped(s, m, pad, start, end) ==
    IF MustTruncate(s, m)
    THEN Sprintf(Slice(s, 0, pad), Len(s) - 2 * pad, start, end, Slice(s, Len(s) - pad, Len(s)))
    ELSE s

\* what is written between the two quotes of a literal
Render(s, m, pad, start, end) ==
    IF MustTruncate(s, m)
    THEN Sprintf(Slice(s, 0, pad), Len(s) - m, start, end, Slice(s, Len(s) - pad, Len(s)))
    ELSE s

RECURSIVE KeyScan(_, _, _)
\* the lookahead loop: j, isFoundStringTokenAgain -> isKey
KeyScan(d, j, found) ==
    IF j >= Len(d) THEN FALSE
    ELSE IF At(d, j) = stringToken THEN KeyScan(d, j + 1, TRUE)
    ELSE IF ~found /\ At(d, j) = ":" THEN TRUE
    ELSE KeyScan(d, j + 1, found)

RECURSIVE KeyScanEnd(_, _, _)
\* the lookahead loop: the value of j when the loop is left
KeyScanEnd(d, j, found) ==
    IF j >= Len(d) THEN j
    ELSE IF At(d, j) = stringToken THEN KeyScanEnd(d, j + 1, TRUE)
    ELSE IF ~found /\ At(d, j) = ":" THEN j
    ELSE KeyScanEnd(d, j + 1, found)

\* faulty variant: the lookahead starts one byte too far
IsKey_Late(d, end) == KeyScan(d, end + 2, FALSE)

\* for j := idxEnd + 1; ...
IsKey(d, end) == KeyScan(d, end + 1, FALSE)

\* buf.Bytes() of a buffer; an empty bytes.Buffer yields a nil slice
Returned(b) == [done |-> TRUE, out |-> b, isNil |-> (b = <<>>), err |-> FALSE, panic |-> FALSE]

ReturnedError == [done |-> TRUE, out |-> <<>>, isNil |-> TRUE, err |-> TRUE, panic |-> FALSE]

Panicked == [done |-> TRUE, out |-> <<>>, isNil |-> TRUE, err |-> FALSE, panic |-> TRUE]

\* ------------------------------------------------------------------- Init
Init ==
    /\ \/ data \in ShortInputs /\ maxCharsArg \in ShortBudgets
       \/ data \in LongInputs /\ maxCharsArg \in ShortBudgets \cup LongBudgets
    /\ pc = "callAll"
    /\ padding = 0
    /\ maxChars = 0
    /\ buf = <<>>
    /\ str = <<>>
    /\ begin = FALSE
    /\ idxStart = 0
    /\ idxEnd = 0
    /\ i = 0
    /\ ret = [o \in Ops |-> NoRet]
    /\ chunks = [o \in Ops |-> <<>>]
    /\ conc = Idle /\ env = Idle /\ value = Idle /\ tree = Idle

\* ------------------------------------------------------ shared transitions
\* entry of either function: padding, maxChars and the var block
Enter(next) ==
    /\ padding' = Padding(maxCharsArg)
    /\ maxChars' = Limit(maxCharsArg, data)
    /\ buf' = <<>>
    /\ str' = <<>>
    /\ begin' = FALSE
    /\ idxStart' = 0
    /\ idxEnd' = 0
    /\ i' = 0
    /\ pc' = next
    /\ UNCHANGED <<data, maxCharsArg, ret, chunks>>
    /\ UNCHANGED others

\* a function returns: the driver moves on
Leave(op, r, next) ==
    /\ ret' = [ret EXCEPT ![op] = r]
    /\ pc' = next
    /\ UNCHANGED <<data, maxCharsArg, chunks, locals>>
    /\ UNCHANGED others

\* faulty variant: the opening quote is looked at again
Open_Stay ==
    /\ idxStart' = i + 1
    /\ begin' = TRUE
    /\ i' = i
    /\ UNCHANGED <<data, maxCharsArg, pc, padding, maxChars, buf, str, idxEnd, ret, chunks>>
    /\ UNCHANGED others

\* an opening quote: idxStart = i + 1; begin = true; continue
Open ==
    /\ idxStart' = i + 1
    /\ begin' = TRUE
    /\ i' = i + 1
    /\ UNCHANGED <<data, maxCharsArg, pc, padding, maxChars, buf, str, idxEnd, ret, chunks>>
    /\ UNCHANGED others

\* faulty variant: idxStart is not reset
Emit_KeepStart(op, isKey, body) ==
    /\ buf' = buf \o <<stringToken>> \o body \o <<stringToken>>
    /\ chunks' = [chunks EXCEPT ![op] = Append(@,
            [lit |-> TRUE, key |-> isKey, start |-> idxStart, end |-> idxEnd,
             at |-> i, src |-> str, bytes |-> <<stringToken>> \o body \o <<stringToken>>])]
    /\ begin' = FALSE
    /\ str' = <<>>
    /\ idxStart' = idxStart
    /\ idxEnd' = 0
    /\ i' = i + 1
    /\ UNCHANGED <<data, maxCharsArg, pc, padding, maxChars, ret>>
    /\ UNCHANGED others

\* a literal is written to buf and the scan state is reset
Emit(op, isKey, body) ==
    /\ buf' = buf \o <<stringToken>> \o body \o <<stringToken>>
    /\ chunks' = [chunks EXCEPT ![op] = Append(@,
            [lit |-> TRUE, key |-> isKey, start |-> idxStart, end |-> idxEnd,
             at |-> i, src |-> str, bytes |-> <<stringToken>> \o body \o <<stringToken>>])]
    /\ begin' = FALSE
    /\ str' = <<>>
    /\ idxStart' = 0
    /\ idxEnd' = 0
    /\ i' = i + 1
    /\ UNCHANGED <<data, maxCharsArg, pc, padding, maxChars, ret>>
    /\ UNCHANGED others

\* faulty variant: idxEnd = i
Accumulate_EndAtI ==
    /\ str' = Append(str, At(data, i))
    /\ idxEnd' = i
    /\ i' = i + 1
    /\ UNCHANGED <<data, maxCharsArg, pc, padding, maxChars, buf, begin, idxStart, ret, chunks>>
    /\ UNCHANGED others

\* str = append(str, datum); idxEnd = i + 1; continue
Accumulate ==
    /\ str' = Append(str, At(data, i))
    /\ idxEnd' = i + 1
    /\ i' = i + 1
    /\ UNCHANGED <<data, maxCharsArg, pc, padding, maxChars, buf, begin, idxStart, ret, chunks>>
    /\ UNCHANGED others

\* buf.WriteByte(datum)
Copy(op) ==
    /\ buf' = Append(buf, At(data, i))
    /\ chunks' = [chunks EXCEPT ![op] = Append(@,
            [lit |-> FALSE, key |-> FALSE, start |-> i, end |-> i + 1,
             at |-> i, src |-> <<At(data, i)>>, bytes |-> <<At(data, i)>>])]
    /\ i' = i + 1
    /\ UNCHANGED <<data, maxCharsArg, pc, padding, maxChars, str, begin, idxStart, idxEnd, ret>>
    /\ UNCHANGED others

\* ------------------------------------------------------ TruncateJsonString
TJS_Enter == pc = "callAll" /\ Enter("scanAll")

TJS_Open ==
    /\ pc = "scanAll" /\ i < Len(data)
    /\ IsOpen(data, i, idxStart)
    /\ Open

TJS_Close ==
    /\ pc = "scanAll" /\ i < Len(data)
    /\ ~IsOpen(data, i, idxStart) /\ begin /\ IsClose(data, i)
    /\ IF MustTruncate(str, maxChars) /\ ~RenderOK(str, padding)
       THEN Leave("all", Panicked, "callVal")
       ELSE Emit("all", FALSE, Render(str, maxChars, padding, idxStart, idxEnd))

TJS_Unclosed ==
    /\ pc = "scanAll" /\ i < Len(data)
    /\ ~IsOpen(data, i, idxStart) /\ begin /\ ~IsClose(data, i)
    /\ i = Len(data) - 1
    /\ Leave("all", ReturnedError, "callVal")

TJS_Accumulate ==
    /\ pc = "scanAll" /\ i < Len(data)
    /\ ~IsOpen(data, i, idxStart) /\ begin /\ ~IsClose(data, i)
    /\ i # Len(data) - 1
    /\ Accumulate

TJS_Copy ==
    /\ pc = "scanAll" /\ i < Len(data)
    /\ ~IsOpen(data, i, idxStart) /\ ~begin
    /\ Copy("all")

TJS_Return ==
    /\ pc = "scanAll" /\ ~(i < Len(data))
    /\ Leave("all", Returned(buf), "callVal")

\* ------------------------------------------------- TruncateJsonValueString
TJVS_Enter == pc = "callVal" /\ Enter("scanVal")

TJVS_Open ==
    /\ pc = "scanVal" /\ i < Len(data)
    /\ IsOpen(data, i, idxStart)
    /\ Open

TJVS_CloseKey ==
    /\ pc = "scanVal" /\ i < Len(data)
    /\ ~IsOpen(data, i, idxStart) /\ begin /\ IsClose(data, i)
    /\ IsKey(data, idxEnd)
    /\ Emit("val", TRUE, str)

\* faulty variant: a value literal is written back without the truncation rule
TJVS_CloseValue_NoCut ==
    /\ pc = "scanVal" /\ i < Len(data)
    /\ ~IsOpen(data, i, idxStart) /\ begin /\ IsClose(data, i)
    /\ ~IsKey(data, idxEnd)
    /\ Emit("val", FALSE, str)

TJVS_CloseValue ==
    /\ pc = "scanVal" /\ i < Len(data)
    /\ ~IsOpen(data, i, idxStart) /\ begin /\ IsClose(data, i)
    /\ ~IsKey(data, idxEnd)
    /\ IF MustTruncate(str, maxChars) /\ ~RenderOK(str, padding)
       THEN Leave("val", Panicked, "done")
       ELSE Emit("val", FALSE, Render(str, maxChars, padding, idxStart, idxEnd))

TJVS_Unclosed ==
    /\ pc = "scanVal" /\ i < Len(data)
    /\ ~IsOpen(data, i, idxStart) /\ begin /\ ~IsClose(data, i)
    /\ i = Len(data) - 1
    /\ Leave("val", ReturnedError, "done")

TJVS_Accumulate ==
    /\ pc = "scanVal" /\ i < Len(data)
    /\ ~IsOpen(data, i, idxStart) /\ begin /\ ~IsClose(data, i)
    /\ i # Len(data) - 1
    /\ Accumulate

TJVS_Copy ==
    /\ pc = "scanVal" /\ i < Len(data)
    /\ ~IsOpen(data, i, idxStart) /\ ~begin
    /\ Copy("val")

TJVS_Return ==
    /\ pc = "scanVal" /\ ~(i < Len(data))
    /\ Leave("val", Returned(buf), "done")

Next ==
    \/ TJS_Enter \/ TJS_Open \/ TJS_Close \/ TJS_Unclosed
    \/ TJS_Accumulate \/ TJS_Copy \/ TJS_Return
    \/ TJVS_Enter \/ TJVS_Open \/ TJVS_CloseKey \/ TJVS_CloseValue
    \/ TJVS_Unclosed \/ TJVS_Accumulate \/ TJVS_Copy \/ TJVS_Return

Spec == Init /\ [][Next]_vars

\* --------------------------------------------------------------- typing
TypeOK ==
    /\ pc \in {"callAll", "scanAll", "callVal", "scanVal", "done"}
    /\ i \in 0..Len(data)
    /\ begin \in BOOLEAN
    /\ idxStart \in 0..Len(data)
    /\ idxEnd \in 0..Len(data)

\* ------------------------------------------------- JSON string reference
\* The JSON rule for string tokens (RFC 8259): outside a string a quote opens
\* one; inside, a backslash escapes the byte after it and any other quote
\* closes.  Positions are 1-based.
RECURSIVE JsonQuoted(_, _, _)
JsonQuoted(s, k, inside) ==
    IF k > Len(s) THEN ~inside
    ELSE IF ~inside THEN JsonQuoted(s, k + 1, s[k] = stringToken)
    ELSE IF s[k] = escapedStringToken THEN k + 1 <= Len(s) /\ JsonQuoted(s, k + 2, TRUE)
    ELSE JsonQuoted(s, k + 1, s[k] # stringToken)

\* every quote of s is properly paired and escaped
ProperlyQuoted(s) == JsonQuoted(s, 1, FALSE)

RECURSIVE JsonCloseAfterEscape(_, _, _)
\* some literal of s (by the JSON rule) has a backslash right before its
\* closing quote, that is, its content ends with an escaped backslash
JsonCloseAfterEscape(s, k, inside) ==
    IF k > Len(s) THEN FALSE
    ELSE IF ~inside THEN JsonCloseAfterEscape(s, k + 1, s[k] = stringToken)
    ELSE IF s[k] = escapedStringToken THEN JsonCloseAfterEscape(s, k + 2, TRUE)
    ELSE IF s[k] = stringToken
         THEN s[k - 1] = escapedStringToken \/ JsonCloseAfterEscape(s, k + 1, FALSE)
         ELSE JsonCloseAfterEscape(s, k + 1, TRUE)

NoEscapedBackslashAtEnd(s) == ~JsonCloseAfterEscape(s, 1, FALSE)

Succeeded(op) == ret[op].done /\ ~ret[op].err /\ ~ret[op].panic

\* ------------------------------------------------------------------ C1
\* C1 as stated: for every input whose quotes are properly paired and
\* escaped, both operations with maxChars = 0 return no error and the input
\* itself.
C1_Original ==
    \A op \in Ops :
        (ret[op].done /\ maxCharsArg = 0 /\ ProperlyQuoted(data))
            => (Succeeded(op) /\ ret[op].out = data)

\* C1 amended: for every input whose quotes are properly paired and escaped
\* and in which no literal's content ends with a backslash (an escaped
\* backslash right before the closing quote), both operations with
\* maxChars = 0 return no error and an output equal to the input.
C1_Identity ==
    \A op \in Ops :
        (ret[op].done /\ maxCharsArg = 0 /\ ProperlyQuoted(data)
            /\ NoEscapedBackslashAtEnd(data))
            => (Succeeded(op) /\ ret[op].out = data)

\* a literal holding an escaped quote went through both operations unchanged
C1_Witness ==
    /\ pc = "done" /\ maxCharsArg = 0
    /\ data = <<stringToken, escapedStringToken, stringToken, "a", stringToken>>
    /\ \A op \in Ops : Succeeded(op) /\ ret[op].out = data

\* ------------------------------------------------------------------ C2
\* C2: whenever a call reaches the end of the input while still inside an
\* opened literal (begin is set when the call returns), it returns an error.
C2_UnclosedFails ==
    /\ (pc = "callVal" /\ begin) => ret["all"].err
    /\ (pc = "done" /\ begin) => ret["val"].err

\* ------------------------------------------------------------------ C10
FourQuotes == <<stringToken, stringToken, stringToken, stringToken>>

EmptyLiteral(c) == c.lit /\ c.src = <<>> /\ c.bytes = <<stringToken, stringToken>>

Quoted(body) == <<stringToken>> \o body \o <<stringToken>>

\* a literal of the history that was not written back as it was read
Rewritten(c) == c.lit /\ c.bytes # Quoted(c.src)

RECURSIVE Flatten(_)
\* the bytes written by a history of writes
Flatten(cs) == IF cs = <<>> THEN <<>> ELSE cs[1].bytes \o Flatten(Tail(cs))

RECURSIVE Consumed(_, _)
\* the number of input bytes read by the first n writes of a history
Consumed(cs, n) ==
    IF n = 0 THEN 0
    ELSE Consumed(cs, n - 1) + (IF cs[n].lit THEN Len(cs[n].src) + 2 ELSE 1)

HasInfix(s, t) == \E k \in 0..(Len(s) - Len(t)) : SubSeq(s, k + 1, k + Len(t)) = t

RECURSIVE ColonAfter(_, _)
\* from index j on (0-based), optional spaces and then a colon
ColonAfter(d, j) ==
    IF j >= Len(d) THEN FALSE
    ELSE IF At(d, j) = " " THEN ColonAfter(d, j + 1)
    ELSE At(d, j) = ":"

\* the padding the truncation rule prescribes for budget m > 0
RulePadding(m) == IF m >= 20 THEN 20 ELSE m \div 2

\* the text the truncation rule prescribes for a truncated literal
RuleText(content, m, start, end) ==
    SubSeq(content, 1, RulePadding(m))
        \o <<" ", "*", "*", "e", "s", "c", "a", "p", "e", "d", " ">>
        \o Itoa(Len(content) - m)
        \o <<" ", "c", "h", "a", "r", "s", " ", "a", "t", " ", "[">>
        \o Itoa(start) \o <<":">> \o Itoa(end) \o <<"]", "*", "*", " ">>
        \o SubSeq(content, Len(content) - RulePadding(m) + 1, Len(content))

C4_TruncationFormat ==
    \A op \in Ops : \A n \in 1..Len(chunks[op]) :
        LET c == chunks[op][n] IN
        Rewritten(c) =>
            /\ maxCharsArg > 0
            /\ c.bytes = Quoted(RuleText(c.src, maxCharsArg, c.start, c.end))

\* a key of 21 bytes cut under budget 20: prefix and suffix of 20 bytes,
\* elided count 1
C4_Witness ==
    /\ pc = "done" /\ maxCharsArg = DefaultPadding
    /\ data = LongInput(DefaultPadding + 1)
    /\ chunks["all"][2].bytes =
         Quoted(SubSeq(LongBody(21), 1, 20)
            \o <<" ", "*", "*", "e", "s", "c", "a", "p", "e", "d", " ", "1",
                 " ", "c", "h", "a", "r", "s", " ", "a", "t", " ", "[",
                 "2", ":", "2", "3", "]", "*", "*", " ">>
            \o SubSeq(LongBody(21), 2, 21))

\* ------------------------------------------------------------------ C5
RECURSIVE JsonMaxLit(_, _, _, _, _)
\* the longest content among the literals of s (by the JSON rule)
JsonMaxLit(s, k, inside, cur, best) ==
    IF k > Len(s) THEN best
    ELSE IF ~inside THEN JsonMaxLit(s, k + 1, s[k] = stringToken, 0, best)
    ELSE IF s[k] = escapedStringToken THEN JsonMaxLit(s, k + 2, TRUE, cur + 2, best)
    ELSE IF s[k] = stringToken
         THEN JsonMaxLit(s, k + 1, FALSE, 0, IF cur > best THEN cur ELSE best)
         ELSE JsonMaxLit(s, k + 1, TRUE, cur + 1, best)

LongestLiteral(s) == JsonMaxLit(s, 1, FALSE, 0, 0)

\* C5: with maxChars > 0 and a properly quoted input in which every literal
\* has length <= maxChars, TruncateJsonString returns the input (a literal is
\* truncated only if it is longer than maxChars).
C5_Original ==
    (ret["all"].done /\ maxCharsArg > 0 /\ ProperlyQuoted(data)
        /\ LongestLiteral(data) <= maxCharsArg)
        => (Succeeded("all") /\ ret["all"].out = data)

\* What the code does guarantee: with maxChars > 0 and a properly quoted
\* input (no literal's content ending with a backslash) in which every
\* literal has length strictly below maxChars, TruncateJsonString returns the
\* input.
C5_BelowBudget ==
    (ret["all"].done /\ maxCharsArg > 0 /\ ProperlyQuoted(data)
        /\ NoEscapedBackslashAtEnd(data)
        /\ LongestLiteral(data) < maxCharsArg)
        => (Succeeded("all") /\ ret["all"].out = data)

\* a literal one byte below the budget went through unchanged
C5_Witness ==
    /\ ret["all"].done /\ maxCharsArg = 3
    /\ data = <<"a", stringToken, "a", "a", stringToken>>
    /\ ret["all"].out = data

\* ------------------------------------------------------------------ C7
\* C7: both operations cut the input into the same literals and outside
\* bytes; TruncateJsonString writes every literal by the truncation rule;
\* TruncateJsonValueString writes a literal it takes for a key unmodified and
\* every other literal exactly as TruncateJsonString does, so the outputs
\* differ at key literals only.
C7_DifferOnlyAtKeys ==
    pc = "done" =>
        /\ Len(chunks["all"]) = Len(chunks["val"])
        /\ \A op \in Ops : Succeeded(op) => ret[op].out = Flatten(chunks[op])
        /\ \A n \in 1..Len(chunks["all"]) :
            LET a == chunks["all"][n]
                v == chunks["val"][n]
            IN  /\ a.lit = v.lit /\ a.src = v.src /\ a.at = v.at
                /\ a.lit =>
                     a.bytes = Quoted(IF maxCharsArg > 0 /\ Len(a.src) >= maxCharsArg
                                      THEN RuleText(a.src, maxCharsArg, a.start, a.end)
                                      ELSE a.src)
                /\ v.key => v.bytes = Quoted(v.src)
                /\ ~v.key => v.bytes = a.bytes

\* a long key is cut by TruncateJsonString and kept by TruncateJsonValueString
C7_Witness ==
    /\ pc = "done" /\ maxCharsArg = 3 /\ data \in LongInputs
    /\ Succeeded("all") /\ Succeeded("val")
    /\ ret["all"].out # ret["val"].out
    /\ chunks["val"][2].key /\ Rewritten(chunks["all"][2])
    /\ chunks["val"][4].bytes = chunks["all"][4].bytes
    /\ Rewritten(chunks["val"][4])

\* ------------------------------------------------------------------ C8
\* C8: the start reported in a truncation marker is the input index right
\* after the literal's opening quote and the end is the input index of its
\* closing quote; end - start is the content length and input[start:end] is
\* the content.
C8_MarkerOffsets ==
    \A op \in Ops : \A n \in 1..Len(chunks[op]) :
        LET c == chunks[op][n]
            open == Consumed(chunks[op], n - 1)
            start == open + 1
            end == start + Len(c.src)
        IN  Rewritten(c) =>
              /\ At(data, open) = stringToken
              /\ At(data, end) = stringToken
              /\ Slice(data, start, end) = c.src
              /\ HasInfix(c.bytes, <<"[">> \o Itoa(start) \o <<":">> \o Itoa(end) \o <<"]">>)

\* the second literal of an input is cut and reports [3:4]
C8_Witness ==
    /\ pc = "done" /\ maxCharsArg = 1
    /\ data = <<stringToken, stringToken, stringToken, "a", stringToken>>
    /\ HasInfix(ret["all"].out, <<"[", "3", ":", "4", "]">>)

\* ------------------------------------------------------------------ C6
RECURSIVE OutsideBytes(_, _, _)
\* s with its string literals deleted, a literal being what the scanner takes
\* for one: from a quote to the next quote not preceded by a backslash
OutsideBytes(s, k, inside) ==
    IF k > Len(s) THEN <<>>
    ELSE IF ~inside
         THEN IF s[k] = stringToken
              THEN OutsideBytes(s, k + 1, TRUE)
              ELSE <<s[k]>> \o OutsideBytes(s, k + 1, FALSE)
    ELSE OutsideBytes(s, k + 1, ~(s[k] = stringToken /\ s[k - 1] # escapedStringToken))

RECURSIVE JsonOutsideBytes(_, _, _)
\* the same with literals delimited by the JSON rule
JsonOutsideBytes(s, k, inside) ==
    IF k > Len(s) THEN <<>>
    ELSE IF ~inside
         THEN IF s[k] = stringToken
              THEN JsonOutsideBytes(s, k + 1, TRUE)
              ELSE <<s[k]>> \o JsonOutsideBytes(s, k + 1, FALSE)
    ELSE IF s[k] = escapedStringToken THEN JsonOutsideBytes(s, k + 2, TRUE)
    ELSE JsonOutsideBytes(s, k + 1, s[k] # stringToken)

\* C6: on every successful scan, deleting the string literals from the output
\* leaves the same bytes as deleting them from the input.
C6_OutsideBytesKept ==
    \A op \in Ops :
        Succeeded(op) =>
            OutsideBytes(ret[op].out, 1, FALSE) = OutsideBytes(data, 1, FALSE)

\* C6 read with JSON-delimited literals
C6_JsonOutsideBytesKept ==
    \A op \in Ops :
        Succeeded(op) =>
            JsonOutsideBytes(ret[op].out, 1, FALSE) = JsonOutsideBytes(data, 1, FALSE)

RECURSIVE RawBytes(_)
\* the bytes the scanner wrote with WriteByte(datum), in order
RawBytes(cs) ==
    IF cs = <<>> THEN <<>>
    ELSE (IF cs[1].lit THEN <<>> ELSE cs[1].bytes) \o RawBytes(Tail(cs))

\* the scanner itself copies every byte it reads outside a literal
C6_CopiedVerbatim ==
    \A op \in Ops :
        Succeeded(op) => RawBytes(chunks[op]) = OutsideBytes(data, 1, FALSE)

\* ------------------------------------------------------------------ C9
Whitespace == {" "}

\* the bytes that may follow a backslash in a JSON string (u needs four hex
\* digits, which no byte sequence of the model supplies)
Escapable == {stringToken, escapedStringToken, "/", "b", "f", "n", "r", "t"}

RECURSIVE JsonStrEnd(_, _)
\* s[1] is a quote: the position of the closing quote of that string token,
\* 0 if the token is malformed or unterminated
JsonStrEnd(s, k) ==
    IF k > Len(s) THEN 0
    ELSE IF s[k] = stringToken THEN k
    ELSE IF s[k] = escapedStringToken
         THEN IF k + 1 <= Len(s) /\ s[k + 1] \in Escapable THEN JsonStrEnd(s, k + 2) ELSE 0
    ELSE JsonStrEnd(s, k + 1)

RECURSIVE TrimLeft(_)
TrimLeft(s) == IF s # <<>> /\ s[1] \in Whitespace THEN TrimLeft(Tail(s)) ELSE s

RECURSIVE TrimRight(_)
TrimRight(s) ==
    IF s # <<>> /\ s[Len(s)] \in Whitespace THEN TrimRight(SubSeq(s, 1, Len(s) - 1)) ELSE s

Trim(s) == TrimLeft(TrimRight(s))

RECURSIVE IsJson(_)
\* s is a JSON document of the fragment: a string, or an object with at most
\* one member whose value is again of the fragment
IsJson(s) ==
    LET t == Trim(s) IN
    IF t = <<>> THEN FALSE
    ELSE IF t[1] = stringToken THEN JsonStrEnd(t, 2) = Len(t)
    ELSE IF t[1] = "{" /\ t[Len(t)] = "}"
         THEN LET m == Trim(SubSeq(t, 2, Len(t) - 1)) IN
              \/ m = <<>>
              \/ /\ m[1] = stringToken
                 /\ JsonStrEnd(m, 2) # 0
                 /\ LET r == TrimLeft(SubSeq(m, JsonStrEnd(m, 2) + 1, Len(m))) IN
                    r # <<>> /\ r[1] = ":" /\ IsJson(Tail(r))
    ELSE FALSE

\* C9: when the input is valid JSON and TruncateJsonValueString succeeds, the
\* output is valid JSON.
C9_OutputStaysJson ==
    (Succeeded("val") /\ IsJson(data)) => IsJson(ret["val"].out)

\* ================================================ concurrent scanner calls
\* Two goroutines each call one of the scanners.  A call's locals live in its
\* own record; bytes.Buffer objects live on a heap and a call holds the one
\* it allocated.  One step of a call is one iteration of its for loop.

\* longest input of a concurrent call
ConcMaxLen == 3
\* largest budget of a concurrent call
ConcMaxChars == 1

CallIds == {1, 2}

ConcAlphabet == {stringToken, ":", "a"}

\* the empty input and the inputs that open with a literal
ConcInputs ==
    {<<>>} \cup {<<stringToken>> \o b :
                     b \in UNION {[1..n -> ConcAlphabet] : n \in 0..(ConcMaxLen - 1)}}

ConcBudgets == 0..ConcMaxChars

\* faulty variant: one package-level buffer is reused by every call
NewBuffer_Shared(id) == 1

\* buf = &bytes.Buffer{}: a call gets a buffer of its own
NewBuffer(id) == id

\* the frame of a call that has not started
NewCall(id, op, d, m) ==
    [id |-> id, op |-> op, data |-> d, m |-> m, pc |-> "call",
     padding |-> 0, maxChars |-> 0, buf |-> id, str |-> <<>>, begin |-> FALSE,
     idxStart |-> 0, idxEnd |-> 0, i |-> 0, ret |-> NoRet]

\* the branch of the function body the call takes next
Branch(c) ==
    IF c.pc = "call" THEN "enter"
    ELSE IF c.pc = "done" THEN "none"
    ELSE IF ~(c.i < Len(c.data)) THEN "return"
    ELSE IF IsOpen(c.data, c.i, c.idxStart) THEN "open"
    ELSE IF c.begin
         THEN IF IsClose(c.data, c.i) THEN "close"
              ELSE IF c.i = Len(c.data) - 1 THEN "unclosed"
              ELSE "accumulate"
    ELSE "copy"

\* one step of call c on heap hp: the call's frame and the heap afterwards
CallStep(c, hp) ==
    LET b == Branch(c) IN
    IF b = "enter" THEN
        [call |-> [c EXCEPT !.pc = "scan", !.padding = Padding(c.m),
                            !.maxChars = Limit(c.m, c.data),
                            !.buf = NewBuffer(c.id), !.str = <<>>,
                            !.begin = FALSE, !.idxStart = 0, !.idxEnd = 0, !.i = 0],
         heap |-> [hp EXCEPT ![NewBuffer(c.id)] = <<>>]]
    ELSE IF b = "return" THEN
        [call |-> [c EXCEPT !.pc = "done", !.ret = Returned(hp[c.buf])], heap |-> hp]
    ELSE IF b = "open" THEN
        [call |-> [c EXCEPT !.idxStart = c.i + 1, !.begin = TRUE, !.i = c.i + 1],
         heap |-> hp]
    ELSE IF b = "close" THEN
        LET key == c.op = "val" /\ IsKey(c.data, c.idxEnd) IN
        IF ~key /\ MustTruncate(c.str, c.maxChars) /\ ~RenderOK(c.str, c.padding)
        THEN [call |-> [c EXCEPT !.pc = "done", !.ret = Panicked], heap |-> hp]
        ELSE [call |-> [c EXCEPT !.begin = FALSE, !.str = <<>>, !.idxStart = 0,
                                 !.idxEnd = 0, !.i = c.i + 1],
              heap |-> [hp EXCEPT ![c.buf] = @ \o <<stringToken>>
                            \o (IF key THEN c.str
                                ELSE Render(c.str, c.maxChars, c.padding, c.idxStart, c.idxEnd))
                            \o <<stringToken>>]]
    ELSE IF b = "unclosed" THEN
        [call |-> [c EXCEPT !.pc = "done", !.ret = ReturnedError], heap |-> hp]
    ELSE IF b = "accumulate" THEN
        [call |-> [c EXCEPT !.str = Append(c.str, At(c.data, c.i)),
                            !.idxEnd = c.i + 1, !.i = c.i + 1],
         heap |-> hp]
    ELSE IF b = "copy" THEN
        [call |-> [c EXCEPT !.i = c.i + 1],
         heap |-> [hp EXCEPT ![c.buf] = Append(@, At(c.data, c.i))]]
    ELSE [call |-> c, heap |-> hp]

EmptyHeap == [b \in CallIds |-> <<>>]

RECURSIVE RunToEnd(_, _)
\* a call run from frame c to its return with nothing else running
RunToEnd(c, hp) ==
    IF c.pc = "done" THEN c.ret
    ELSE RunToEnd(CallStep(c, hp).call, CallStep(c, hp).heap)

\* what operation op returns for (d, m) when it is the only call running
Alone(id, op, d, m) == RunToEnd(NewCall(id, op, d, m), EmptyHeap)

\* the scanner driver is not running
ScanIdle ==
    /\ data = <<>> /\ maxCharsArg = 0 /\ pc = "idle"
    /\ padding = 0 /\ maxChars = 0 /\ buf = <<>> /\ str = <<>>
    /\ begin = FALSE /\ idxStart = 0 /\ idxEnd = 0 /\ i = 0
    /\ ret = [o \in Ops |-> NoRet]
    /\ chunks = [o \in Ops |-> <<>>]

\* two calls, any mix of the two operations, each with its own input
Init_Conc ==
    /\ ScanIdle
    /\ env = Idle /\ value = Idle /\ tree = Idle
    /\ \E o1 \in Ops, o2 \in Ops, d1 \in ConcInputs, d2 \in ConcInputs, m \in ConcBudgets :
         conc = [pc |-> "run", overlap |-> FALSE, heap |-> EmptyHeap,
                 calls |-> [id \in CallIds |->
                              IF id = 1 THEN NewCall(1, o1, d1, m)
                                        ELSE NewCall(2, o2, d2, m)]]

\* call id takes its next step; overlap notes that the other call was in
\* the middle of its scan at that moment
ConcApply(id) ==
    LET r == CallStep(conc.calls[id], conc.heap) IN
    /\ conc' = [conc EXCEPT !.calls[id] = r.call, !.heap = r.heap,
                            !.overlap = @ \/ \E o \in CallIds \ {id} :
                                                 /\ conc.calls[o].pc = "scan"
                                                 /\ conc.calls[o].i > 0]
    /\ UNCHANGED <<scanVars, env, value, tree>>

ConcTakes(b) ==
    /\ conc.pc = "run"
    /\ \E id \in CallIds : Branch(conc.calls[id]) = b /\ ConcApply(id)

Conc_Enter == ConcTakes("enter")

Conc_Open == ConcTakes("open")

Conc_Close == ConcTakes("close")

Conc_Unclosed == ConcTakes("unclosed")

Conc_Accumulate == ConcTakes("accumulate")

Conc_Copy == ConcTakes("copy")

Conc_Return == ConcTakes("return")

Next_Conc ==
    \/ Conc_Enter \/ Conc_Open \/ Conc_Close \/ Conc_Unclosed
    \/ Conc_Accumulate \/ Conc_Copy \/ Conc_Return

SpecConc == Init_Conc /\ [][Next_Conc]_vars

\* the step function and the driver's actions are the same translation: what
\* the driver got from an operation is what a lone call returns
StepMatchesActions ==
    \A op \in Ops : ret[op].done => ret[op] = Alone(1, op, data, maxCharsArg)

\* ------------------------------------------------------------------ C11
\* C11: under every interleaving of two concurrent calls, a call that has
\* returned has returned the output and error it returns when run alone.
C11_Isolated ==
    conc.pc = "run" =>
        \A id \in CallIds :
            LET c == conc.calls[id] IN
            c.pc = "done" => c.ret = Alone(id, c.op, c.data, c.m)

\* both calls ran interleaved on different inputs, one of each operation, and
\* both wrote a truncated literal
C11_Witness ==
    /\ conc.pc = "run" /\ conc.overlap
    /\ \A id \in CallIds : conc.calls[id].pc = "done" /\ ~conc.calls[id].ret.err
    /\ conc.calls[1].op # conc.calls[2].op
    /\ conc.calls[1].data # conc.calls[2].data
    /\ \A id \in CallIds : Len(conc.calls[id].ret.out) > Len(conc.calls[id].data)

\* ------------------------------------------------------------------ C17
EscapedWord == <<" ", "*", "*", "e", "s", "c", "a", "p", "e", "d", " ">>

Scanning == pc \in {"scanAll", "scanVal"}

\* C18: for every maxChars > 0 the padding in force satisfies
\* 2 * padding <= maxChars, and the prefix and the suffix kept of a truncated
\* literal do not overlap.
C18_PaddingWithinBudget ==
    (Scanning /\ maxCharsArg > 0) =>
        /\ 2 * padding <= maxChars
        /\ \A op \in Ops : \A n \in 1..Len(chunks[op]) :
             Rewritten(chunks[op][n]) => 2 * padding <= Len(chunks[op][n].src)

\* ------------------------------------------------------------------ C19
\* the step stays inside the for loop of the running scanner
LoopStep == Scanning /\ pc' = pc /\ i < Len(data)

EscapedQuoteInput == <<stringToken, escapedStringToken, stringToken, stringToken>>

\* C19: while the scanner is inside a string, a quote byte closes the literal
\* if and only if the byte right before it is not a backslash; and the input
\* "\"" is returned unchanged at maxChars = 0.
C19_SingleByteLookback ==
    [][/\ (Scanning /\ begin /\ i < Len(data) /\ At(data, i) = stringToken)
            => ((~begin' /\ pc' = pc) <=> At(data, i - 1) # escapedStringToken)
       /\ \A op \in Ops :
            (ret'[op].done /\ data = EscapedQuoteInput /\ maxCharsArg = 0)
                => (~ret'[op].err /\ ret'[op].out = data)]_vars

\* backslash, backslash, quote did not close the literal: the three bytes are
\* its content
C19_Witness ==
    /\ pc = "done" /\ maxCharsArg = 0
    /\ data = <<stringToken, escapedStringToken, escapedStringToken, stringToken, stringToken>>
    /\ Len(chunks["all"]) = 1
    /\ chunks["all"][1].src = <<escapedStringToken, escapedStringToken, stringToken>>
    /\ ret["val"].out = data

\* ------------------------------------------------------------------ C20
\* C20 as stated: the scanner is inside or outside a string; it goes inside
\* only at a quote not immediately preceded by a backslash, and goes outside
\* only at a quote not immediately preceded by a backslash.
C20_Original ==
    [][LoopStep =>
        /\ begin \in BOOLEAN
        /\ (~begin /\ begin') =>
              /\ At(data, i) = stringToken
              /\ (i = 0 \/ At(data, i - 1) # escapedStringToken)
        /\ (begin /\ ~begin') =>
              /\ At(data, i) = stringToken
              /\ At(data, i - 1) # escapedStringToken]_vars

\* C20 amended: the scanner is inside or outside a string; it goes inside
\* only at a quote byte met while outside (a backslash before that quote
\* does not matter), and goes outside only at a quote byte, met while inside,
\* that is not immediately preceded by a backslash.
C20_Phases ==
    [][LoopStep =>
        /\ begin \in BOOLEAN
        /\ (~begin /\ begin') => At(data, i) = stringToken
        /\ (begin /\ ~begin') =>
              /\ At(data, i) = stringToken
              /\ At(data, i - 1) # escapedStringToken]_vars

\* a literal was opened by a quote that follows a backslash, and closed
C20_Witness ==
    /\ pc = "done" /\ maxCharsArg = 0
    /\ data = <<escapedStringToken, stringToken, "a", stringToken>>
    /\ Len(chunks["val"]) = 2
    /\ chunks["val"][2].lit /\ chunks["val"][2].src = <<"a">>

\* ------------------------------------------------------------------ C21
\* the scanner is inside a literal and stands on the quote that closes it
Closing ==
    /\ Scanning /\ i < Len(data)
    /\ ~IsOpen(data, i, idxStart) /\ begin /\ IsClose(data, i)

\* C21: at the moment a string literal is closed, the empty literal included,
\* the recorded span satisfies idxStart <= idxEnd.
C21_SpanOrdered == Closing => idxStart <= idxEnd

\* the same for the literals that have content
C21_NonEmptySpanOrdered == (Closing /\ str # <<>>) => idxStart <= idxEnd

\* ------------------------------------------------------------------ C22
\* begin is true exactly when idxStart is non-zero, and the accumulator is
\* empty whenever begin is false
ScanStateConsistent == (begin <=> idxStart # 0) /\ (~begin => str = <<>>)

\* C22: after each completed literal the scan state is back in its initial
\* form (begin = false, accumulator empty, idxStart = 0, idxEnd = 0); at every
\* loop iteration boundary begin is true exactly when idxStart is non-zero,
\* and the accumulator is empty whenever begin is false.
C22_ScanStateReset ==
    [][/\ Scanning => ScanStateConsistent
       /\ Scanning' => ScanStateConsistent'
       /\ (Closing /\ pc' = pc)
            => (~begin' /\ str' = <<>> /\ idxStart' = 0 /\ idxEnd' = 0)]_vars

\* a literal with content was completed and the scan goes on from the
\* initial scan state
C22_Witness ==
    /\ pc = "scanVal" /\ i < Len(data)
    /\ Len(chunks["val"]) = 1 /\ chunks["val"][1].lit /\ chunks["val"][1].src = <<"a">>
    /\ ~begin /\ str = <<>> /\ idxStart = 0 /\ idxEnd = 0

\* ------------------------------------------------------------------ C23
RECURSIVE ColonBeforeQuote(_, _)
\* from index j on (0-based), a colon is met before any quote byte
ColonBeforeQuote(d, j) ==
    IF j >= Len(d) THEN FALSE
    ELSE IF At(d, j) = stringToken THEN FALSE
    ELSE IF At(d, j) = ":" THEN TRUE
    ELSE ColonBeforeQuote(d, j + 1)

\* C23: in TruncateJsonValueString every literal, the empty one included, is
\* classified from the bytes after its closing quote alone: it is a key if
\* and only if, from the byte right after the closing quote, a colon is met
\* before any quote byte; it is a value if a quote comes first or the input
\* ends without a colon.
C23_ForwardOnly ==
    (pc = "scanVal" /\ Closing) => (IsKey(data, idxEnd) <=> ColonBeforeQuote(data, i + 1))

\* the same for the literals that have content
C23_NonEmptyForwardOnly ==
    (pc = "scanVal" /\ Closing /\ str # <<>>)
        => (IsKey(data, idxEnd) <=> ColonBeforeQuote(data, i + 1))

\* ------------------------------------------------------------------ C24
\* C24: for every maxChars <= 0 and every input, truncation never triggers
\* in either operation: no literal is rewritten, no slice is taken with the
\* padding, and the output and error are those for maxChars = 0.
C24_NoLimit ==
    maxCharsArg <= 0 =>
        /\ Closing => ~MustTruncate(str, maxChars)
        /\ \A op \in Ops :
             /\ \A n \in 1..Len(chunks[op]) : ~Rewritten(chunks[op][n])
             /\ ret[op].done => ~ret[op].panic
             /\ pc = "done" => ret[op] = Alone(1, op, data, 0)

\* with a negative budget a literal went through both operations unchanged
C24_Witness ==
    /\ pc = "done" /\ maxCharsArg < 0
    /\ data = <<stringToken, "a", "a", stringToken>>
    /\ \A op \in Ops : Succeeded(op) /\ ret[op].out = data

\* ------------------------------------------------------------------ C25
\* the indices from lo up to, not including, hi
Between(lo, hi) == {k \in 0..hi : lo <= k /\ k < hi}

\* C25: every scan call terminates: the main index i grows by one on each
\* iteration and the loop ends after at most len(data) iterations; each key
\* lookahead of TruncateJsonValueString visits only indices below len(data)
\* and ends at the first colon seen before a quote or at end of input.
C25_Terminates ==
    [][/\ LoopStep => (i' = i + 1 /\ i' <= Len(data))
       /\ Scanning => (i <= Len(data) /\ ENABLED Next)
       /\ (pc = "scanVal" /\ Closing) =>
            LET lo == idxEnd + 1
                hi == KeyScanEnd(data, lo, FALSE)
            IN  /\ 0 <= lo /\ lo <= hi /\ hi <= Len(data)
                /\ \A k \in Between(lo, hi) :
                     At(data, k) = ":" => \E q \in Between(lo, k) : At(data, q) = stringToken
                /\ hi < Len(data) =>
                     /\ At(data, hi) = ":"
                     /\ \A q \in Between(lo, hi) : At(data, q) # stringToken
                /\ IsKey(data, idxEnd) <=> hi < Len(data)]_vars

\* a lookahead stopped at the colon after the closing quote, and the call
\* went through the whole input and returned
C25_Witness ==
    /\ pc = "done" /\ Succeeded("val")
    /\ data = <<stringToken, "a", stringToken, ":", "a">>
    /\ KeyScanEnd(data, 3, FALSE) = 3
    /\ Len(chunks["val"]) = 3 /\ chunks["val"][1].key

\* ------------------------------------------------------------------ C28
RECURSIVE EndsInsideLiteral(_, _, _)
\* reading d from index k (0-based): the last byte of d is met inside a
\* literal and does not close it.  A quote met outside opens a literal; a
\* quote met inside closes it unless the byte before it is a backslash.
EndsInsideLiteral(d, k, inside) ==
    IF k >= Len(d) THEN FALSE
    ELSE IF ~inside THEN EndsInsideLiteral(d, k + 1, At(d, k) = stringToken)
    ELSE IF At(d, k) = stringToken /\ At(d, k - 1) # escapedStringToken
         THEN EndsInsideLiteral(d, k + 1, FALSE)
    ELSE k = Len(d) - 1 \/ EndsInsideLiteral(d, k + 1, TRUE)

\* C28: whether a scan fails depends on the input bytes alone:
\* TruncateJsonString returns an error if and only if TruncateJsonValueString
\* does, for each operation the error outcome is the same for every maxChars,
\* and on error the returned output is nil.
C28_ErrorsFromInputOnly ==
    /\ \A op \in Ops :
         (ret[op].done /\ ~ret[op].panic) =>
            /\ ret[op].err <=> EndsInsideLiteral(data, 0, FALSE)
            /\ ret[op].err => (ret[op].isNil /\ ret[op].out = <<>>)
    /\ (pc = "done" /\ \A op \in Ops : ~ret[op].panic) => (ret["all"].err <=> ret["val"].err)

\* a key was written and the value after it was never closed: both
\* operations failed, with a budget that would have cut the value
C28_Witness ==
    /\ pc = "done" /\ maxCharsArg = 1
    /\ data = <<stringToken, stringToken, ":", stringToken, "a">>
    /\ \A op \in Ops : ret[op].err /\ ret[op].isNil

\* ------------------------------------------------------------------ C29
\* the scanner stands on a closing quote and the literal is handed to the
\* truncation rule with a length at or over the budget
Truncating ==
    /\ Closing /\ MustTruncate(str, maxChars)
    /\ pc = "scanVal" => ~IsKey(data, idxEnd)

\* C29: for every input and every maxChars, neither operation indexes or
\* slices out of range: whenever a literal is truncated 0 <= padding <=
\* len(content), so content[0:padding] and content[len(content)-padding:]
\* are valid; prevIdx is always within the input; the input buffer is never
\* written.
C29_InRange ==
    [][/\ Truncating => (0 <= padding /\ padding <= Len(str) /\ RenderOK(str, padding))
       /\ (Scanning /\ i < Len(data)) => (0 <= PrevIdx(i) /\ PrevIdx(i) < Len(data))
       /\ \A op \in Ops : ~ret'[op].panic
       /\ data' = data]_vars

\* literals of 19, 20 and 21 bytes were cut with the budget at their length
C29_Witness ==
    /\ pc = "done" /\ maxCharsArg \in LongBudgets
    /\ data = LongInput(maxCharsArg)
    /\ \A op \in Ops : Succeeded(op) /\ HasInfix(ret[op].out, EscapedWord)

\* ================================================================== envmap
\* IsEnvVarString, MapValue and LabelCleaner (envmap/helper.go) and the
\* StrOrArr type they work on.  A string is a sequence of one-character
\* strings; one call is one action.

\* longest key body of a placeholder candidate
EnvMaxKey == 3
\* longest label drawn from the full label alphabet
LabelMaxLen == 4
\* long labels have LabelLimit-1 .. LabelLimit+LabelSlack letters
LabelSlack == 1
\* most elements of an array-kind StrOrArr
EnvMaxArr == 2

kindUnknown == 0
KindString == 1
KindArray == 2
\* if len(newLabel) >= 63 { newLabel = newLabel[:63] }
LabelLimit == 63

\* stands for a byte sequence that is not valid UTF-8 (0xD8 0x01 in the test)
InvalidByte == "?"

UpperChars == {"A", "B"}
LowerChars == {"a", "b", "x", "y"}
DigitChars == {"0", "1", "2", "3", "4", "5", "6", "7", "8", "9"}

HasPrefix(t, p) == Len(t) >= Len(p) /\ SubSeq(t, 1, Len(p)) = p

HasSuffix(t, p) == Len(t) >= Len(p) /\ SubSeq(t, Len(t) - Len(p) + 1, Len(t)) = p

\* utf8.ValidString
ValidString(t) == \A k \in 1..Len(t) : t[k] # InvalidByte

\* regxAlphaNum = ^[A-Z0-9_]+$
MatchAlphaNum(t) ==
    t # <<>> /\ \A k \in 1..Len(t) : t[k] \in UpperChars \cup DigitChars \cup {"_"}

EnvResult(key, kind, err) == [key |-> key, kind |-> kind, err |-> err]

\* IsEnvVarString(ctx, str): (key, kind, err); err is "nil" or the message
IsEnvVarString(t) ==
    IF Len(t) <= 3 THEN EnvResult(<<>>, kindUnknown, "minimum char of env var is 4")
    ELSE IF ~HasPrefix(t, <<"$", "{">>) THEN EnvResult(<<>>, kindUnknown, "not starts")
    ELSE IF ~HasSuffix(t, <<"}">>) THEN EnvResult(<<>>, kindUnknown, "not ends")
    ELSE
      LET inner == SubSeq(t, 3, Len(t) - 1)
          isArr == HasSuffix(inner, <<":", "[", "]">>)
          kind == IF isArr THEN KindArray ELSE kindUnknown
          key == IF isArr THEN SubSeq(inner, 1, Len(inner) - 3) ELSE inner
      IN  IF ~ValidString(key) THEN EnvResult(<<>>, kind, "non-utf8")
          ELSE IF Len(key) > 0 /\ key[1] \in DigitChars
               THEN EnvResult(<<>>, kind, "starts with number")
          ELSE IF Len(key) > 0 /\ key[1] = "_"
               THEN EnvResult(<<>>, kind, "starts with underscore")
          ELSE IF Len(key) > 0 /\ key[Len(key)] = "_"
               THEN EnvResult(<<>>, kind, "ends with underscore")
          ELSE IF ~MatchAlphaNum(key) THEN EnvResult(<<>>, kind, "non alphanumeric")
          ELSE EnvResult(key, IF kind = kindUnknown THEN KindString ELSE kind, "nil")

\* a *StrOrArr; nil is the nil pointer
StrOrArr(t, arr) == [nil |-> FALSE, str |-> t, arrStr |-> arr]

NilStrOrArr == [nil |-> TRUE, str |-> <<>>, arrStr |-> <<>>]

\* func String(str string) *StrOrArr
String(t) == StrOrArr(t, <<>>)

\* func StringArray(arrStr []string) *StrOrArr
StringArray(arr) == StrOrArr(<<>>, arr)

\* func (s StrOrArr) Kind() Kind
Kind(v) ==
    IF v.str # <<>> /\ Len(v.arrStr) > 0 THEN kindUnknown
    ELSE IF v.str # <<>> THEN KindString
    ELSE IF Len(v.arrStr) > 0 THEN KindArray
    ELSE KindString

\* func (s *StrOrArr) Array() []string
Array(v) == IF Kind(v) = KindString THEN <<>> ELSE v.arrStr

RECURSIVE IndexOf(_, _, _)
\* 1-based position of the first ch in t at or after k, 0 if there is none
IndexOf(t, ch, k) ==
    IF k > Len(t) THEN 0 ELSE IF t[k] = ch THEN k ELSE IndexOf(t, ch, k + 1)

\* faulty variant: the value is not split
SplitComma_Whole(t) == <<t>>

RECURSIVE SplitComma(_)
\* strings.Split(actualValue, ",")
SplitComma(t) ==
    LET k == IndexOf(t, ",", 1) IN
    IF k = 0 THEN <<t>>
    ELSE <<SubSeq(t, 1, k - 1)>> \o SplitComma(SubSeq(t, k + 1, Len(t)))

\* values[key]: (actualValue, exist)
Lookup(values, key) ==
    IF key \in DOMAIN values THEN [value |-> values[key], exist |-> TRUE]
    ELSE [value |-> <<>>, exist |-> FALSE]

RECURSIVE MapArray_Nested(_, _)
\* faulty variant: an array placeholder inside an array is replaced too
MapArray_Nested(arr, values) ==
    IF arr = <<>> THEN <<>>
    ELSE LET r == IsEnvVarString(arr[1])
             elem == IF r.err # "nil" THEN arr[1]
                     ELSE IF Lookup(values, r.key).exist
                          THEN Lookup(values, r.key).value ELSE arr[1]
         IN <<elem>> \o MapArray_Nested(Tail(arr), values)

RECURSIVE MapArray(_, _)
\* the loop over s.Array(): actualArrValues
MapArray(arr, values) ==
    IF arr = <<>> THEN <<>>
    ELSE LET r == IsEnvVarString(arr[1])
             elem == IF r.err # "nil" THEN arr[1]
                     ELSE IF r.kind = KindString
                          THEN IF Lookup(values, r.key).exist
                               THEN Lookup(values, r.key).value ELSE arr[1]
                     ELSE arr[1]
         IN <<elem>> \o MapArray(Tail(arr), values)

\* MapValue(ctx, s, values): (mapped, err)
MapValue(v, values) ==
    IF v.nil THEN [mapped |-> NilStrOrArr, err |-> "nil StrOrArr object"]
    ELSE IF Kind(v) = KindString THEN
        LET r == IsEnvVarString(v.str) IN
        IF r.err # "nil" THEN [mapped |-> StrOrArr(v.str, <<>>), err |-> "nil"]
        ELSE IF r.kind = KindString
             THEN [mapped |-> StrOrArr(IF Lookup(values, r.key).exist
                                         THEN Lookup(values, r.key).value ELSE v.str, <<>>),
                   err |-> "nil"]
        ELSE IF r.kind = KindArray
             THEN IF ~Lookup(values, r.key).exist
                  THEN [mapped |-> StrOrArr(v.str, <<>>), err |-> "nil"]
                  ELSE [mapped |-> StrOrArr(<<>>, SplitComma(Lookup(values, r.key).value)),
                        err |-> "nil"]
        ELSE [mapped |-> StrOrArr(v.str, v.arrStr), err |-> "nil"]
    ELSE IF Kind(v) = KindArray
         THEN [mapped |-> StrOrArr(<<>>, MapArray(Array(v), values)), err |-> "nil"]
    ELSE [mapped |-> StrOrArr(<<>>, <<>>), err |-> "cannot handle type"]

\* width of a character in bytes; "e'" stands for a two-byte rune
MultiByte == "e'"

ByteWidth(ch) == IF ch = MultiByte THEN 2 ELSE 1

RECURSIVE ByteLen(_)
\* len(str) of a Go string
ByteLen(t) == IF t = <<>> THEN 0 ELSE ByteWidth(t[1]) + ByteLen(Tail(t))

\* unicode.ToLower on the letters of the model
ToLower(ch) == IF ch = "A" THEN "a" ELSE IF ch = "B" THEN "b" ELSE ch

\* the closure returned by labelCleaner(str), at its idx-th call, on rune r:
\* the runes it returns (none when it returns -1)
Cleaner(t, idx, r) ==
    IF r \in LowerChars THEN <<r>>
    ELSE IF r \in DigitChars THEN (IF idx = 1 THEN <<>> ELSE <<r>>)
    ELSE IF r \in UpperChars THEN <<ToLower(r)>>
    ELSE IF r = "_" THEN (IF idx = 1 \/ idx = ByteLen(t) THEN <<>> ELSE <<r>>)
    ELSE IF r = "." THEN <<".">>
    ELSE <<>>

RECURSIVE MapRunes(_, _)
\* strings.Map(cleaner, str), runes k.. of str
MapRunes(t, k) ==
    IF k > Len(t) THEN <<>> ELSE Cleaner(t, k, t[k]) \o MapRunes(t, k + 1)

RECURSIVE ReplaceDots(_)
\* strings.ReplaceAll(newLabel, ".", "__")
ReplaceDots(t) ==
    IF t = <<>> THEN <<>>
    ELSE (IF t[1] = "." THEN <<"_", "_">> ELSE <<t[1]>>) \o ReplaceDots(Tail(t))

\* faulty variant: the label is cut one byte later
Shorten_Late(t) == IF Len(t) >= LabelLimit + 1 THEN SubSeq(t, 1, LabelLimit + 1) ELSE t

\* if len(newLabel) >= 63 { newLabel = newLabel[:63] }
Shorten(t) == IF Len(t) >= LabelLimit THEN SubSeq(t, 1, LabelLimit) ELSE t

\* strings.TrimSuffix(newLabel, "_")
TrimSuffix(t) == IF HasSuffix(t, <<"_">>) THEN SubSeq(t, 1, Len(t) - 1) ELSE t

\* func LabelCleaner(str string) string
LabelCleaner(t) == TrimSuffix(Shorten(ReplaceDots(MapRunes(t, 1))))

\* -------------------------------------------------------- envmap inputs
\* candidates for a placeholder: a prefix, a key body, a suffix
EnvStrings ==
    LET alphabet == {"A", "_", "1", "a", InvalidByte}
        bodies == UNION {[1..n -> alphabet] : n \in 0..EnvMaxKey}
        prefixes == {<<>>, <<"$">>, <<"$", "{">>}
        suffixes == {<<>>, <<"}">>, <<":", "[", "]", "}">>, <<"[", "]", "}">>}
    IN  {p \o b \o x : p \in prefixes, b \in bodies, x \in suffixes}

\* the values maps: any subset of the keys, any value for each
ValueMaps ==
    LET keys == {<<"A">>, <<"A", "1">>}
        vals == {<<>>, <<"x">>, <<"x", ",", "y">>}
    IN  UNION {[ks -> vals] : ks \in SUBSET keys}

\* arrays of plain, array and broken placeholders and of plain text
EnvArrays ==
    LET elems == {<<"$", "{", "A", "}">>, <<"$", "{", "A", "1", "}">>, <<"$", "{", "B", "}">>,
                  <<"$", "{", "A", ":", "[", "]", "}">>, <<"$", "{", "_", "A", "}">>,
                  <<"$", "{", "A", "[", "]", "}">>, <<"x">>, <<>>}
    IN  UNION {[1..n -> elems] : n \in 0..EnvMaxArr}

\* short labels over every class of rune, and long labels of letters, plain
\* and with a dot at the end
Labels ==
    LET alphabet == {"a", "A", "1", "_", ".", "$", MultiByte}
        long(n) == [k \in 1..n |-> IF k % 2 = 1 THEN "a" ELSE "b"]
    IN  UNION {[1..n -> alphabet] : n \in 0..LabelMaxLen}
            \cup {long(n) : n \in (LabelLimit - 1)..(LabelLimit + LabelSlack)}
            \cup {long(n) \o <<".">> : n \in (LabelLimit - 1)..(LabelLimit + LabelSlack)}

\* the scanner driver and the other components are not running
Init_Env ==
    /\ ScanIdle
    /\ conc = Idle /\ value = Idle /\ tree = Idle
    /\ \/ \E t \in EnvStrings :
            env = [pc |-> "call", fn |-> "IsEnvVarString", str |-> t,
                   s |-> NilStrOrArr, values |-> <<>>, res |-> <<>>]
       \/ \E t \in EnvStrings, vs \in ValueMaps :
            env = [pc |-> "call", fn |-> "MapValue", str |-> <<>>,
                   s |-> String(t), values |-> vs, res |-> <<>>]
       \/ \E arr \in EnvArrays, vs \in ValueMaps :
            env = [pc |-> "call", fn |-> "MapValue", str |-> <<>>,
                   s |-> StringArray(arr), values |-> vs, res |-> <<>>]
       \/ \E t \in Labels :
            env = [pc |-> "call", fn |-> "LabelCleaner", str |-> t,
                   s |-> NilStrOrArr, values |-> <<>>, res |-> <<>>]

EnvReturn(r) ==
    /\ env' = [env EXCEPT !.pc = "done", !.res = r]
    /\ UNCHANGED <<scanVars, conc, value, tree>>

Env_IsEnvVarString ==
    /\ env.pc = "call" /\ env.fn = "IsEnvVarString"
    /\ EnvReturn(IsEnvVarString(env.str))

Env_MapValue ==
    /\ env.pc = "call" /\ env.fn = "MapValue"
    /\ EnvReturn(MapValue(env.s, env.values))

Env_LabelCleaner ==
    /\ env.pc = "call" /\ env.fn = "LabelCleaner"
    /\ EnvReturn(LabelCleaner(env.str))

Next_Env == Env_IsEnvVarString \/ Env_MapValue \/ Env_LabelCleaner

SpecEnv == Init_Env /\ [][Next_Env]_vars

Returned_Env(fn) == env.pc = "done" /\ env.fn = fn

\* ------------------------------------------------------------------ C12
\* a key as the documentation of IsEnvVarString describes it: upper-case
\* letters, digits and underscores, not starting with a digit or an
\* underscore, not ending with an underscore
ValidKey(k) ==
    /\ k # <<>>
    /\ \A n \in 1..Len(k) : k[n] \in UpperChars \cup DigitChars \cup {"_"}
    /\ k[1] \in UpperChars
    /\ k[Len(k)] # "_"

PlainKey(t) == SubSeq(t, 3, Len(t) - 1)

ArrayKey(t) == SubSeq(t, 3, Len(t) - 4)

\* t is ${KEY}
PlainPlaceholder(t) ==
    HasPrefix(t, <<"$", "{">>) /\ HasSuffix(t, <<"}">>) /\ ValidKey(PlainKey(t))

\* t is ${KEY:[]}
ArrayPlaceholder(t) ==
    /\ HasPrefix(t, <<"$", "{">>) /\ HasSuffix(t, <<":", "[", "]", "}">>)
    /\ Len(t) >= 6 /\ ValidKey(ArrayKey(t))

RECURSIVE JoinComma(_)
JoinComma(ts) ==
    IF ts = <<>> THEN <<>>
    ELSE IF Len(ts) = 1 THEN ts[1]
    ELSE ts[1] \o <<",">> \o JoinComma(Tail(ts))

\* parts is t split on commas
IsSplitOf(parts, t) ==
    /\ parts # <<>>
    /\ JoinComma(parts) = t
    /\ \A n \in 1..Len(parts) : IndexOf(parts[n], ",", 1) = 0

C13_ErrorMeansUnknown ==
    (Returned_Env("IsEnvVarString") /\ env.res.err # "nil")
        => (env.res.key = <<>> /\ env.res.kind = kindUnknown)

\* ------------------------------------------------------------------ C14
\* C14: a non-empty output of LabelCleaner has only characters of [a-z0-9_]
\* and does not start with an underscore.
C14_CleanLabel ==
    (Returned_Env("LabelCleaner") /\ env.res # <<>>) =>
        /\ \A n \in 1..Len(env.res) : env.res[n] \in LowerChars \cup DigitChars \cup {"_"}
        /\ env.res[1] # "_"

\* ------------------------------------------------------------------ C26
\* C26: MapValue on an array-kind StrOrArr returns no error and an array of
\* the same length and order in which every element that is a valid ${KEY}
\* placeholder with KEY in values is replaced by values[KEY], and every other
\* element (no placeholder, key absent, or a ${KEY:[]} placeholder even when
\* KEY is in values) is kept.
C26_MapValueArray ==
    (Returned_Env("MapValue") /\ ~env.s.nil /\ env.s.str = <<>> /\ Len(env.s.arrStr) > 0) =>
        LET arr == env.s.arrStr
            m == env.res.mapped
        IN  /\ env.res.err = "nil"
            /\ ~m.nil /\ m.str = <<>>
            /\ Len(m.arrStr) = Len(arr)
            /\ \A n \in 1..Len(arr) :
                 m.arrStr[n] = IF PlainPlaceholder(arr[n]) /\ PlainKey(arr[n]) \in DOMAIN env.values
                               THEN env.values[PlainKey(arr[n])]
                               ELSE arr[n]

\* [${A}, ${A:[]}] with A = "x,y" became ["x,y", ${A:[]}]
C26_Witness ==
    /\ Returned_Env("MapValue")
    /\ env.s = StringArray(<<<<"$", "{", "A", "}">>, <<"$", "{", "A", ":", "[", "]", "}">>>>)
    /\ <<"A">> \in DOMAIN env.values /\ env.values[<<"A">>] = <<"x", ",", "y">>
    /\ env.res.mapped =
         StringArray(<<<<"x", ",", "y">>, <<"$", "{", "A", ":", "[", "]", "}">>>>)

\* ------------------------------------------------------------------ C27
\* C27: the output of LabelCleaner is at most 63 bytes long; an input of
\* lower-case letters longer than 63 bytes yields its first 63 bytes.
C27_LabelLength ==
    Returned_Env("LabelCleaner") =>
        /\ Len(env.res) <= 63
        /\ (Len(env.str) > 63 /\ \A n \in 1..Len(env.str) : env.str[n] \in LowerChars)
             => env.res = SubSeq(env.str, 1, 63)

\* a label of 64 lower-case letters was cut to 63
C27_Witness ==
    /\ Returned_Env("LabelCleaner")
    /\ Len(env.str) = 64 /\ \A n \in 1..Len(env.str) : env.str[n] \in LowerChars
    /\ Len(env.res) = 63

\* =================================================================== Value
\* type Value (value.go): UnmarshalJSON, MarshalJSON and Interface on one
\* Value, in any order.  What encoding/json decodes into an interface{} is
\* a tagged record: nil, bool, float64, string or []interface{}.

\* longest array of a document
ValueMaxElems == 2
\* most UnmarshalJSON calls on the Value
ValueMaxCalls == 3

GoNil == [t |-> "nil", v |-> <<>>]

GoBool(b) == [t |-> "bool", v |-> b]

GoFloat(n) == [t |-> "float64", v |-> n]

GoString(t) == [t |-> "string", v |-> t]

GoSlice(es) == [t |-> "slice", v |-> es]

JsonSpace == " "

NullText == <<"n", "u", "l", "l">>

TrueText == <<"t", "r", "u", "e">>

FalseText == <<"f", "a", "l", "s", "e">>

RECURSIVE SkipSpace(_, _)
\* the first position at or after k that holds no white space
SkipSpace(t, k) ==
    IF k <= Len(t) /\ t[k] = JsonSpace THEN SkipSpace(t, k + 1) ELSE k

LiteralAt(t, k, w) == k + Len(w) - 1 <= Len(t) /\ SubSeq(t, k, k + Len(w) - 1) = w

RECURSIVE DigitsEnd(_, _)
\* the first position at or after k that holds no digit
DigitsEnd(t, k) ==
    IF k <= Len(t) /\ t[k] \in DigitChars THEN DigitsEnd(t, k + 1) ELSE k

DigitValue(ch) == CHOOSE n \in 0..9 : Itoa(n) = <<ch>>

RECURSIVE Atoi(_)
Atoi(t) == IF t = <<>> THEN 0 ELSE 10 * Atoi(SubSeq(t, 1, Len(t) - 1)) + DigitValue(t[Len(t)])

RECURSIVE LettersEnd(_, _)
\* the first position at or after k that holds no lower-case letter
LettersEnd(t, k) ==
    IF k <= Len(t) /\ t[k] \in LowerChars THEN LettersEnd(t, k + 1) ELSE k

ParseFail == [ok |-> FALSE, val |-> GoNil, next |-> 0]

Parsed(val, next) == [ok |-> TRUE, val |-> val, next |-> next]

RECURSIVE ParseValue(_, _), ParseElems(_, _, _)
\* the decoder of encoding/json on the documents of the model: null, true,
\* false, non-negative integers, strings of lower-case letters, arrays
ParseValue(t, k0) ==
    LET k == SkipSpace(t, k0) IN
    IF k > Len(t) THEN ParseFail
    ELSE IF LiteralAt(t, k, NullText) THEN Parsed(GoNil, k + Len(NullText))
    ELSE IF LiteralAt(t, k, TrueText) THEN Parsed(GoBool(TRUE), k + Len(TrueText))
    ELSE IF LiteralAt(t, k, FalseText) THEN Parsed(GoBool(FALSE), k + Len(FalseText))
    ELSE IF t[k] \in DigitChars THEN
        LET e == DigitsEnd(t, k) IN
        IF t[k] = "0" /\ e > k + 1 THEN ParseFail
        ELSE Parsed(GoFloat(Atoi(SubSeq(t, k, e - 1))), e)
    ELSE IF t[k] = stringToken THEN
        LET e == LettersEnd(t, k + 1) IN
        IF e <= Len(t) /\ t[e] = stringToken
        THEN Parsed(GoString(SubSeq(t, k + 1, e - 1)), e + 1)
        ELSE ParseFail
    ELSE IF t[k] = "[" THEN
        LET j == SkipSpace(t, k + 1) IN
        IF j <= Len(t) /\ t[j] = "]" THEN Parsed(GoSlice(<<>>), j + 1)
        ELSE ParseElems(t, k + 1, <<>>)
    ELSE ParseFail

ParseElems(t, k, acc) ==
    LET r == ParseValue(t, k) IN
    IF ~r.ok THEN ParseFail
    ELSE LET j == SkipSpace(t, r.next) IN
         IF j > Len(t) THEN ParseFail
         ELSE IF t[j] = "," THEN ParseElems(t, j + 1, Append(acc, r.val))
         ELSE IF t[j] = "]" THEN Parsed(GoSlice(Append(acc, r.val)), j + 1)
         ELSE ParseFail

\* json.Unmarshal(data, &raw) for var raw interface{}
Unmarshal(t) ==
    LET r == ParseValue(t, 1) IN
    IF r.ok /\ SkipSpace(t, r.next) > Len(t)
    THEN [err |-> "nil", raw |-> r.val]
    ELSE [err |-> "syntax error", raw |-> GoNil]

RECURSIVE Marshal(_), MarshalElems(_)
\* json.Marshal(raw)
Marshal(x) ==
    IF x.t = "nil" THEN NullText
    ELSE IF x.t = "bool" THEN (IF x.v THEN TrueText ELSE FalseText)
    ELSE IF x.t = "float64" THEN Itoa(x.v)
    ELSE IF x.t = "string" THEN <<stringToken>> \o x.v \o <<stringToken>>
    ELSE <<"[">> \o MarshalElems(x.v) \o <<"]">>

MarshalElems(es) ==
    IF es = <<>> THEN <<>>
    ELSE IF Len(es) = 1 THEN Marshal(es[1])
    ELSE Marshal(es[1]) \o <<",">> \o MarshalElems(Tail(es))

RECURSIVE Sprint(_), SprintElems(_)
\* fmt.Sprint(raw), fmt.Sprintf("%v", raw)
Sprint(x) ==
    IF x.t = "nil" THEN <<"<", "n", "i", "l", ">">>
    ELSE IF x.t = "bool" THEN (IF x.v THEN TrueText ELSE FalseText)
    ELSE IF x.t = "float64" THEN Itoa(x.v)
    ELSE IF x.t = "string" THEN x.v
    ELSE <<"[">> \o SprintElems(x.v) \o <<"]">>

SprintElems(es) ==
    IF es = <<>> THEN <<>>
    ELSE IF Len(es) = 1 THEN Sprint(es[1])
    ELSE Sprint(es[1]) \o <<" ">> \o SprintElems(Tail(es))

\* func (v *Value) UnmarshalJSON(data []byte) error, v not nil
UnmarshalJSON(v, t) ==
    LET r == Unmarshal(t) IN
    IF r.err # "nil" THEN [v |-> v, err |-> r.err]
    ELSE IF r.raw = GoNil THEN [v |-> v, err |-> "nil"]
    ELSE [v |-> [str |-> Sprint(r.raw), raw |-> r.raw], err |-> "nil"]

\* func (v Value) MarshalJSON() ([]byte, error)
MarshalJSON(v) == IF v.raw = GoNil THEN NullText ELSE Marshal(v.raw)

\* func (v Value) Interface() interface{}
Interface(v) == v.raw

\* the documents: scalars and arrays of scalars
ValueDocs ==
    LET atoms == {GoNil, GoBool(TRUE), GoFloat(1), GoString(<<"a">>)}
    IN  atoms \cup {GoSlice(es) : es \in UNION {[1..n -> atoms] : n \in 0..ValueMaxElems}}

\* the data of the calls: documents, documents in white space, and bytes
\* that are no JSON document
ValueTexts ==
    {Marshal(d) : d \in ValueDocs}
        \cup {<<JsonSpace>> \o Marshal(d) \o <<JsonSpace>> : d \in ValueDocs}
        \cup {<<>>, <<"n", "u", "l">>, <<"[", "1">>, <<"1", JsonSpace, "1">>, <<"0", "1">>}

\* var v Value; the other components are not running
Init_Value ==
    /\ ScanIdle
    /\ conc = Idle /\ env = Idle /\ tree = Idle
    /\ value = [pc |-> "run", v |-> [str |-> <<>>, raw |-> GoNil], calls |-> 0,
                op |-> "new", out |-> <<>>, err |-> "nil", last |-> <<>>, decoded |-> 0]

\* last: the data of the latest successful call; decoded: how many succeeded
Value_UnmarshalJSON ==
    /\ value.pc = "run" /\ value.calls < ValueMaxCalls
    /\ \E t \in ValueTexts :
         LET r == UnmarshalJSON(value.v, t) IN
         value' = [value EXCEPT !.v = r.v, !.calls = @ + 1, !.op = "UnmarshalJSON",
                                !.out = <<>>, !.err = r.err,
                                !.last = IF r.err = "nil" THEN t ELSE @,
                                !.decoded = IF r.err = "nil" THEN @ + 1 ELSE @]
    /\ UNCHANGED <<scanVars, conc, env, tree>>

Value_MarshalJSON ==
    /\ value.pc = "run"
    /\ value' = [value EXCEPT !.op = "MarshalJSON", !.out = MarshalJSON(value.v),
                              !.err = "nil"]
    /\ UNCHANGED <<scanVars, conc, env, tree>>

Value_Interface ==
    /\ value.pc = "run"
    /\ value' = [value EXCEPT !.op = "Interface", !.out = Interface(value.v),
                              !.err = "nil"]
    /\ UNCHANGED <<scanVars, conc, env, tree>>

Next_Value == Value_UnmarshalJSON \/ Value_MarshalJSON \/ Value_Interface

SpecValue == Init_Value /\ [][Next_Value]_vars

\* ------------------------------------------------------------------ C15
\* the documents of the model decode and encode as they should
ValueTextsRoundTrip ==
    \A d \in ValueDocs :
        /\ Unmarshal(Marshal(d)) = [err |-> "nil", raw |-> d]
        /\ Unmarshal(<<JsonSpace>> \o Marshal(d) \o <<JsonSpace>>).raw = d

\* C15: after any sequence of successful UnmarshalJSON calls on a Value,
\* Interface() and MarshalJSON reflect the document unmarshalled last, null
\* included, never an earlier one.
C15_LatestDocument ==
    (value.pc = "run" /\ value.decoded > 0) =>
        /\ value.op = "Interface" => value.out = Unmarshal(value.last).raw
        /\ value.op = "MarshalJSON" => value.out = Marshal(Unmarshal(value.last).raw)

\* the same for documents other than null
C15_LatestNonNull ==
    (value.pc = "run" /\ value.decoded > 0 /\ Unmarshal(value.last).raw # GoNil) =>
        /\ value.op = "Interface" => value.out = Unmarshal(value.last).raw
        /\ value.op = "MarshalJSON" => value.out = Marshal(Unmarshal(value.last).raw)

\* ============================================================= Transformer
\* Transformer.Transform and the four walkers it calls (maskMap,
\* maskMapInterface, maskSlice, maskSliceInterface).  A decoded JSON value is
\* the tagged record of the Value section, with map[string]interface{} as a
\* function from keys to values.  One call is one action; it leaves the
\* result and what the caller's tree holds afterwards.

\* most elements of a slice
TreeMaxWidth == 2

GoMap(f) == [t |-> "map", v |-> f]

\* const ( Object Type = iota; Array )
InsideObject == 0
InsideArray == 1

KVInfo(top, inside, key, val) ==
    [IsTopLevel |-> top, Inside |-> inside, Key |-> key, Value |-> val]

Transformers == {"default", "mask", "key", "where"}

\* m.Config.StringTransformer(ctx, info) for the transformers of the model:
\* DefaultStringTransformer, a constant mask, and two that show which
\* KVInfo they were given
StringTransformer(m, info) ==
    IF m = "default" THEN info.Value
    ELSE IF m = "mask" THEN <<"*">>
    ELSE IF m = "key" THEN info.Key
    ELSE <<IF info.IsTopLevel THEN "T" ELSE "N",
           IF info.Inside = InsideObject THEN "o" ELSE "a">>

RECURSIVE maskMapInterface(_, _), maskSliceInterface(_, _, _)
\* the map it returns is myMap itself, written in place
maskMapInterface(m, myMap) ==
    GoMap([k \in DOMAIN myMap.v |->
        LET v == myMap.v[k] IN
        IF v.t = "string"
        THEN GoString(StringTransformer(m, KVInfo(FALSE, InsideObject, k, v.v)))
        ELSE IF v.t = "map" THEN maskMapInterface(m, v)
        ELSE IF v.t = "slice" THEN maskSliceInterface(m, k, v)
        ELSE v])

\* the slice it returns is a new one
maskSliceInterface(m, key, slices) ==
    GoSlice([n \in 1..Len(slices.v) |->
        LET v == slices.v[n] IN
        IF v.t = "string"
        THEN GoString(StringTransformer(m, KVInfo(FALSE, InsideArray, key, v.v)))
        ELSE IF v.t = "map" THEN maskMapInterface(m, v)
        ELSE IF v.t = "slice" THEN maskSliceInterface(m, key, v)
        ELSE v])

maskMap(m, elem) ==
    GoMap([k \in DOMAIN elem.v |->
        LET v == elem.v[k] IN
        IF v.t = "string"
        THEN GoString(StringTransformer(m, KVInfo(TRUE, InsideObject, k, v.v)))
        ELSE IF v.t = "map" THEN maskMapInterface(m, v)
        ELSE IF v.t = "slice" THEN maskSliceInterface(m, k, v)
        ELSE v])

maskSlice(m, elem) ==
    GoSlice([n \in 1..Len(elem.v) |->
        LET v == elem.v[n] IN
        IF v.t = "string"
        THEN GoString(StringTransformer(m, KVInfo(TRUE, InsideArray, <<>>, v.v)))
        ELSE IF v.t = "map" THEN maskMapInterface(m, v)
        ELSE IF v.t = "slice" THEN maskSliceInterface(m, <<>>, v)
        ELSE v])

\* reflect.ValueOf(nil) is the zero Value, and Type() on it panics
TransformResult(out, err, panicked) == [out |-> out, err |-> err, panic |-> panicked]

\* func (m *Transformer) Transform(ctx, data) (interface{}, error)
Transform(m, x) ==
    IF x.t = "nil" THEN TransformResult(GoNil, "nil", TRUE)
    ELSE IF x.t = "map" THEN TransformResult(maskMap(m, x), "nil", FALSE)
    ELSE IF x.t = "slice" THEN TransformResult(maskSlice(m, x), "nil", FALSE)
    ELSE TransformResult(x, "nil", FALSE)

RECURSIVE SliceAfter(_, _, _)
\* what a slice handed to maskSliceInterface holds afterwards: its maps are
\* written in place, its own elements are not assigned
SliceAfter(m, key, slices) ==
    GoSlice([n \in 1..Len(slices.v) |->
        LET v == slices.v[n] IN
        IF v.t = "map" THEN maskMapInterface(m, v)
        ELSE IF v.t = "slice" THEN SliceAfter(m, key, v)
        ELSE v])

\* what the caller's tree holds after Transform(m, x)
DataAfter(m, x) ==
    IF x.t = "map"
    THEN GoMap([k \in DOMAIN x.v |->
            LET v == x.v[k] IN
            IF v.t = "map" THEN maskMapInterface(m, v)
            ELSE IF v.t = "slice" THEN SliceAfter(m, k, v)
            ELSE v])
    ELSE IF x.t = "slice" THEN SliceAfter(m, <<>>, x)
    ELSE x

\* the decoded documents handed to Transform: scalars; arrays and objects
\* of scalars (flat); a flat one in a container, alone or beside a scalar
\* (nested); a nested one in a container (deep)
Trees ==
    LET keys == {<<"a">>, <<"b">>}
        atoms == {GoNil, GoBool(TRUE), GoFloat(1), GoString(<<"a">>)}
        flat == {GoSlice(es) : es \in UNION {[1..n -> atoms] : n \in 0..TreeMaxWidth}}
                    \cup {GoMap(f) : f \in UNION {[ks -> atoms] : ks \in SUBSET keys}}
        nested == {GoSlice(<<x>>) : x \in flat}
                    \cup {GoSlice(<<x, y>>) : x \in flat, y \in atoms}
                    \cup {GoMap([k \in {<<"a">>} |-> x]) : x \in flat}
                    \cup {GoMap([k \in keys |-> IF k = <<"a">> THEN x ELSE y]) :
                             x \in flat, y \in atoms}
        deep == {GoSlice(<<x>>) : x \in nested}
                    \cup {GoMap([k \in {<<"b">>} |-> x]) : x \in nested}
    IN  atoms \cup flat \cup nested \cup deep

Init_Tree ==
    /\ ScanIdle
    /\ conc = Idle /\ env = Idle /\ value = Idle
    /\ \E m \in Transformers, x \in Trees :
         tree = [pc |-> "call", m |-> m, orig |-> x, data |-> x,
                 res |-> TransformResult(GoNil, "nil", FALSE)]

\* a call that returns
Tree_Transform ==
    /\ tree.pc = "call"
    /\ ~Transform(tree.m, tree.data).panic
    /\ tree' = [tree EXCEPT !.pc = "done", !.res = Transform(tree.m, tree.data),
                            !.data = DataAfter(tree.m, tree.data)]
    /\ UNCHANGED <<scanVars, conc, env, value>>

\* a call that panics
Tree_Panic ==
    /\ tree.pc = "call"
    /\ Transform(tree.m, tree.data).panic
    /\ tree' = [tree EXCEPT !.pc = "panic", !.res = Transform(tree.m, tree.data)]
    /\ UNCHANGED <<scanVars, conc, env, value>>

Next_Tree == Tree_Transform \/ Tree_Panic

SpecTree == Init_Tree /\ [][Next_Tree]_vars

\* ------------------------------------------------------------------ C16
RECURSIVE OnlyStringsDiffer(_, _, _)
\* b is a but for the strings that are elements of arrays or values of objects
OnlyStringsDiffer(a, b, inside) ==
    IF a.t = "map"
    THEN /\ b.t = "map" /\ DOMAIN b.v = DOMAIN a.v
         /\ \A k \in DOMAIN a.v : OnlyStringsDiffer(a.v[k], b.v[k], TRUE)
    ELSE IF a.t = "slice"
    THEN /\ b.t = "slice" /\ Len(b.v) = Len(a.v)
         /\ \A n \in 1..Len(a.v) : OnlyStringsDiffer(a.v[n], b.v[n], TRUE)
    ELSE IF a.t = "string" /\ inside THEN b.t = "string"
    ELSE b = a

RECURSIVE Masked(_, _)
\* a with every string inside a container replaced by the mask
Masked(a, inside) ==
    IF a.t = "map" THEN GoMap([k \in DOMAIN a.v |-> Masked(a.v[k], TRUE)])
    ELSE IF a.t = "slice" THEN GoSlice([n \in 1..Len(a.v) |-> Masked(a.v[n], TRUE)])
    ELSE IF a.t = "string" /\ inside THEN GoString(<<"*">>)
    ELSE a

TransformKeepsShape ==
    /\ tree.pc = "done"
    /\ ~tree.res.panic /\ tree.res.err = "nil"
    /\ OnlyStringsDiffer(tree.orig, tree.res.out, FALSE)
    /\ tree.m = "default" => tree.res.out = tree.orig
    /\ tree.m = "mask" => tree.res.out = Masked(tree.orig, FALSE)

\* C16: for every decoded JSON value, null at the top level included,
\* Transform returns without error or panic a value with the same keys, the
\* same array lengths and order and every number, boolean and null unchanged;
\* only strings in arrays and objects are replaced, by the transformer's result.
C16_StringsOnly == tree.pc \in {"done", "panic"} => TransformKeepsShape

\* the same for every decoded value but a top-level null
C16_ExceptTopNull ==
    (tree.pc \in {"done", "panic"} /\ tree.orig # GoNil) => TransformKeepsShape

\* ------------------------------------------------------------------ C30
RECURSIVE HasMapBelow(_, _)
\* x holds an object somewhere below the top level
HasMapBelow(x, top) ==
    IF x.t = "map"
    THEN ~top \/ \E k \in DOMAIN x.v : HasMapBelow(x.v[k], FALSE)
    ELSE IF x.t = "slice" THEN \E n \in 1..Len(x.v) : HasMapBelow(x.v[n], FALSE)
    ELSE FALSE

\* C30: Transform does not modify the value passed to it: after it returns,
\* the caller's tree, with every nested map and slice, holds the values it
\* held before the call.
C30_InputUntouched == tree.pc = "done" => tree.data = tree.orig

\* the same for the trees that hold no object below the top level
C30_NoInnerObjectUntouched ==
    (tree.pc = "done" /\ ~HasMapBelow(tree.orig, TRUE)) => tree.data = tree.orig

====
